---- MODULE Spec2Model ----
(***************************************************************************)
(* The Chapa payment flow of alx_travel_app/listings: the two function     *)
(* views initiate_chapa_payment and verify_chapa_payment of views.py, the  *)
(* Booking and Payment rows of models.py they read and write, the booking  *)
(* creation and update of BookingViewSet, the routes of the two urls.py,   *)
(* the seed command, the external gateway and the Celery dispatcher.       *)
(* A step of a request is one access to shared state                       *)
(* (a database statement, a gateway call, an enqueue) together with the    *)
(* local computation around it, so that requests overlap exactly as the    *)
(* worker processes of the application let them.                           *)
(***************************************************************************)
EXTENDS Integers, Sequences, FiniteSets, Bags, TLC

\* ------------------------------------------------------------------ bounds
MaxRequests == 4
MaxOverlapping == 3
MaxInFlight == 2
MaxBookings == 1
MaxNonce == 2
MaxNights == 2
MaxRate == 2

Users == {"guest1", "guest2"}
Anonymous == "anonymous"
Properties == {"villa"}

\* ------------------------------------------------------------ model values
\* Booking.BookingStatusChoices
BOOKING_PENDING == "pending"
BOOKING_CONFIRMED == "confirmed"
BOOKING_CANCELED == "canceled"

\* Payment.ChapaPaymentStatusChoices
PENDING == "PENDING"
COMPLETED == "COMPLETED"
FAILED == "FAILED"
CANCELED == "CANCELLED"
REVERSED == "REVERSED"

\* Variant of Lower: the status is formatted as stored
LowerIdentity(s) == s

\* str.lower() on the status values the views format into a URL
Lower(s) ==
    CASE s = "PENDING" -> "pending"
      [] s = "COMPLETED" -> "completed"
      [] s = "FAILED" -> "failed"
      [] s = "CANCELLED" -> "cancelled"
      [] s = "REVERSED" -> "reversed"
      [] OTHER -> s

\* A transaction reference f"{booking.booking_id.hex}-{uuid.uuid4().hex}" is the
\* pair of the booking id and the random part; NoRef stands for "no reference".
NoRef == <<0, 0>>
TxRef(booking_id, nonce) == <<booking_id, nonce>>
AllRefs == {TxRef(b, n) : b \in 1..MaxBookings, n \in 1..MaxNonce}

\* seed_properties / Property.price_per_night: the nightly rate of a property
BaseRate(prop) == 1

\* ---------------------------------------------------------------- the state
VARIABLES
    properties,   \* Property rows: property -> price_per_night
    bookings,     \* Booking rows, booking_id = index: [user, property, nights, total_price, status]
    payments,     \* Payment rows, payment_id = index: [booking, amount, chapa_transaction_id, status, chapa_status_text]
    req,          \* the requests being served: a bag of [view, position, locals]
    nreq,         \* requests started so far
    last,         \* the request that returned in the step just taken, and its response
    sent,         \* transaction references the gateway has received in an initiate call
    verifyCalls,  \* gateway verify calls issued so far
    jobs,         \* the Celery queue: a bag of enqueued jobs
    bookingSaves  \* the saves of a Booking row by verify requests, a bag: for each, the
                  \* payment and the status the request had read

vars == <<properties, bookings, payments, req, nreq, last, sent, verifyCalls, jobs,
         bookingSaves>>

\* ------------------------------------------------------------- responses
NoResponse == [status |-> 0, path |-> "", ref |-> NoRef, arg |-> "", checkout |-> FALSE]

\* JsonResponse({...}, status=status); arg is the error or message text
JsonResponse(arg, status) ==
    [status |-> status, path |-> "json", ref |-> NoRef, arg |-> arg, checkout |-> FALSE]

\* Variant of InitiateSuccessResponse: the response carries no reference
InitiateSuccessResponse_NoRef(tx_ref) ==
    [status |-> 200, path |-> "json", ref |-> NoRef, arg |-> "success", checkout |-> TRUE]

\* JsonResponse({'status': 'success', 'checkout_url': ..., 'tx_ref': tx_ref})
InitiateSuccessResponse(tx_ref) ==
    [status |-> 200, path |-> "json", ref |-> tx_ref, arg |-> "success", checkout |-> TRUE]

\* HttpResponseRedirect(f'{path}?tx_ref={tx_ref}&{arg}')
HttpResponseRedirect(path, tx_ref, arg) ==
    [status |-> 302, path |-> path, ref |-> tx_ref, arg |-> arg, checkout |-> FALSE]

\* ------------------------------------------------------------- requests
NoPayment == [booking |-> 0, amount |-> 0, chapa_transaction_id |-> NoRef,
              status |-> "", chapa_status_text |-> ""]
NoBooking == [user |-> "", property |-> "", nights |-> 0, total_price |-> 0, status |-> ""]

\* A request being served: the view, its position, its arguments and its locals
\* (`payment` and `booking` are the in-memory model objects; `wrote` tells whether
\* it has saved the Payment row, `mover` whether that save made the row terminal).
NewRequest(op) ==
    [op |-> op, pc |-> "start", ref |-> NoRef, pay |-> 0,
     payment |-> NoPayment, booking |-> NoBooking, wrote |-> FALSE, mover |-> FALSE]

\* A request that has returned `resp`: the locals of the view are gone.
Returned(r, resp) ==
    [op |-> r.op, ref |-> r.ref, pay |-> r.pay, wrote |-> r.wrote, mover |-> r.mover,
     resp |-> resp]

NoneReturned == Returned(NewRequest("none"), NoResponse)

\* The requests in flight, a bag: one moved on, one more, one fewer
Active == BagToSet(req)
InFlight == BagCardinality(req)
Enter(r) == req (+) SetToBag({r})
Leave(r) == req (-) SetToBag({r})
Step(r, r2) == Leave(r) (+) SetToBag({r2})

\* A request may start: the first MaxOverlapping requests overlap one another, a
\* later one is served alone.
CanStart ==
    /\ nreq < MaxRequests
    /\ InFlight < MaxInFlight
    /\ (InFlight = 0 \/ nreq < MaxOverlapping)

\* ------------------------------------------------------------ the database
\* Payment.chapa_transaction_id is unique=True: the row with a reference, 0 if none
PaymentByRef(rows, tx_ref) ==
    IF \E i \in 1..Len(rows) : rows[i].chapa_transaction_id = tx_ref
    THEN CHOOSE i \in 1..Len(rows) : rows[i].chapa_transaction_id = tx_ref
    ELSE 0

\* Variant of SaveRow: the UPDATE is lost
SaveRow_Skipped(rows, i, obj) == rows

\* Model.save(): an UPDATE of every column of the row from the in-memory object
SaveRow(rows, i, obj) == [rows EXCEPT ![i] = obj]

\* Variant of CreateRow: the INSERT is lost
CreateRow_Lost(rows, obj) == rows

\* Payment.objects.create(...): INSERT of a new row
CreateRow(rows, obj) == Append(rows, obj)

\* Variant of UniqueOk: the column has no unique constraint
UniqueOk_None(rows, tx_ref) == TRUE

\* The unique constraint on chapa_transaction_id: may `tx_ref` be inserted?
UniqueOk(rows, tx_ref) == PaymentByRef(rows, tx_ref) = 0

Init ==
    /\ properties = [prop \in Properties |-> BaseRate(prop)]
    /\ bookings = <<>>
    /\ payments = <<>>
    /\ req = EmptyBag
    /\ nreq = 0
    /\ last = NoneReturned
    /\ sent = {}
    /\ verifyCalls = 0
    /\ jobs = EmptyBag
    /\ bookingSaves = EmptyBag

\* ----------------------------------------------------- BookingViewSet
BookingConfirmedJob(booking_id) == [task |-> "send_booking_confirmation_email", id |-> booking_id]
PaymentConfirmedJob(payment_id) == [task |-> "send_payment_confirmation_email", id |-> payment_id]

\* Variant of Enqueue: the job is dropped
Enqueue_Dropped(queue, job) == queue

\* send_..._email.delay(...): the job joins the queue
Enqueue(queue, job) == queue (+) SetToBag({job})

\* BookingViewSet.perform_create: total_price = nights * price_per_night, status
\* defaults to PENDING, then the booking-confirmation task is triggered.
perform_create(user, prop, nights) ==
    /\ Len(bookings) < MaxBookings
    /\ bookings' = Append(bookings,
                      [user |-> user, property |-> prop, nights |-> nights,
                       total_price |-> nights * properties[prop],
                       status |-> BOOKING_PENDING])
    /\ jobs' = Enqueue(jobs, BookingConfirmedJob(Len(bookings) + 1))
    /\ last' = NoneReturned
    /\ UNCHANGED <<properties, payments, req, nreq, sent, verifyCalls, bookingSaves>>

\* Variant of UpdatedBooking: the update recomputes the price from the current rate
UpdatedBooking_Repriced(obj, nights, rate) ==
    [obj EXCEPT !.nights = nights, !.total_price = nights * rate]

\* BookingSerializer on update: start_date and end_date are writable, total_price
\* and status are read-only, and the view set has no perform_update.
UpdatedBooking(obj, nights, rate) == [obj EXCEPT !.nights = nights]

\* BookingViewSet update / partial_update, sent by the owner of the booking: the
\* row is read, the writable fields are set and the row is saved, all in the one
\* step of this request.
update_booking(booking_id, nights) ==
    /\ CanStart
    /\ booking_id \in 1..Len(bookings)
    /\ nreq' = nreq + 1
    /\ LET obj == bookings[booking_id]
       IN  bookings' = SaveRow(bookings, booking_id,
                               UpdatedBooking(obj, nights, properties[obj.property]))
    /\ last' = NoneReturned
    /\ UNCHANGED <<properties, payments, req, sent, verifyCalls, jobs, bookingSaves>>

\* The nightly rate of a property is changed.  PropertyViewSet cannot do it (every
\* field of its NestedPropertySerializer is read-only); Property.price_per_night is
\* an editable column, changed in the admin site that the project's urls.py routes.
change_price_per_night(prop, rate) ==
    /\ CanStart
    /\ nreq' = nreq + 1
    /\ properties' = [properties EXCEPT ![prop] = rate]
    /\ last' = NoneReturned
    /\ UNCHANGED <<bookings, payments, req, sent, verifyCalls, jobs, bookingSaves>>

\* Payment.objects.create(booking=booking, amount=price, ...) of the seed command:
\* no transaction reference, the default status
SeedPayment(booking_id, price) ==
    [booking |-> booking_id, amount |-> price, chapa_transaction_id |-> NoRef,
     status |-> PENDING, chapa_status_text |-> ""]

\* One turn of the loop of Command.seed_bookings: a Booking of a random status, and
\* a Payment for it when the status drawn is CONFIRMED.
seed_bookings(user, prop, nights, status) ==
    /\ Len(bookings) < MaxBookings
    /\ LET price == properties[prop] * nights
       IN  /\ bookings' = Append(bookings,
                              [user |-> user, property |-> prop, nights |-> nights,
                               total_price |-> price, status |-> status])
           /\ payments' = IF status = BOOKING_CONFIRMED
                          THEN CreateRow(payments, SeedPayment(Len(bookings) + 1, price))
                          ELSE payments
    /\ last' = NoneReturned
    /\ UNCHANGED <<properties, req, nreq, sent, verifyCalls, jobs, bookingSaves>>

\* --------------------------------------------------- initiate_chapa_payment
\* The JSON values a client can send as "amount": a JSON number, a string that
\* float() parses, a string it does not parse, or no amount at all (None).
AmountValues == 0..(MaxNights * MaxRate)
Amounts ==
    [kind : {"number", "string"}, v : AmountValues]
        \cup {[kind |-> "text", v |-> 0], [kind |-> "missing", v |-> 0]}

\* The values a client can send as "booking_id": the id of a row, a well-formed
\* id of no row, nothing (MissingId), or a string that is no UUID (MalformedId).
MissingId == 0
MalformedId == 0 - 1
BookingIdInputs == (1..(MaxBookings + 1)) \cup {MissingId, MalformedId}

InvalidBody == [kind |-> "invalid", booking_id |-> MissingId,
                amount |-> [kind |-> "missing", v |-> 0]]
Bodies == [kind : {"object"}, booking_id : BookingIdInputs, amount : Amounts] \cup {InvalidBody}

\* Variant of Falsy: only the number 0 is falsy
Falsy_ZeroOnly(amount) == amount.kind = "number" /\ amount.v = 0

\* `not booking_id or not amount`: None and the number 0 are falsy
Falsy(amount) == amount.kind = "missing" \/ (amount.kind = "number" /\ amount.v = 0)

\* float(amount) raises ValueError on a string that is no number, TypeError on None
FloatRaises(amount) == amount.kind \in {"text", "missing"}

\* Variant of AmountMismatch: only an amount above the total is a mismatch
AmountMismatch_Over(amount, total_price) == amount.v > total_price

\* float(amount) != float(booking.total_price)
AmountMismatch(amount, total_price) == amount.v # total_price

\* Variant of BookingFound: the lookup does not filter on the user
BookingFound_AnyUser(rows, booking_id, user) == booking_id \in 1..Len(rows)

\* Booking.objects.get(booking_id=booking_id, user=request.user) finds a row
BookingFound(rows, booking_id, user) ==
    /\ booking_id \in 1..Len(rows)
    /\ rows[booking_id].user = user

\* The response of the view when it returns before creating a Payment row, or
\* NoResponse when the request passes every check of lines 424-445.
InitiateReject(method, user, body) ==
    IF method # "POST" THEN JsonResponse("Invalid request method. Only POST is allowed.", 405)
    ELSE IF user = Anonymous THEN JsonResponse("Authentication required.", 401)
    ELSE IF body.kind = "invalid" THEN JsonResponse("Invalid JSON body.", 400)
    ELSE IF body.booking_id = MissingId \/ Falsy(body.amount)
        THEN JsonResponse("Booking ID and amount are required.", 400)
    ELSE IF body.booking_id = MalformedId
        THEN JsonResponse("An internal error occurred", 500)
    ELSE IF ~BookingFound(bookings, body.booking_id, user)
        THEN JsonResponse("Booking not found or you do not own this booking.", 404)
    ELSE IF FloatRaises(body.amount)
        THEN JsonResponse("An internal error occurred", 500)
    ELSE IF AmountMismatch(body.amount, bookings[body.booking_id].total_price)
        THEN JsonResponse("Amount does not match booking total price.", 400)
    ELSE NoResponse

\* The row of Payment.objects.create(...) at lines 455-462
NewPayment(booking_id, amount, tx_ref) ==
    [booking |-> booking_id, amount |-> amount.v, chapa_transaction_id |-> tx_ref,
     status |-> PENDING, chapa_status_text |-> "Initiation pending"]

\* Lines 423-462: the checks, the fresh reference and the INSERT of the PENDING
\* row.  `nonce` is what uuid.uuid4() returns; an INSERT of a reference that a
\* row already has raises IntegrityError, which the view answers with 500.
initiate_chapa_payment(method, user, body, nonce) ==
    /\ CanStart
    /\ nreq' = nreq + 1
    /\ LET early == InitiateReject(method, user, body)
           tx_ref == TxRef(body.booking_id, nonce)
           start == NewRequest("initiate")
           row == NewPayment(body.booking_id, body.amount, tx_ref)
       IN  IF early # NoResponse
           THEN /\ last' = Returned(start, early)
                /\ UNCHANGED <<payments, req>>
           ELSE IF ~UniqueOk(payments, tx_ref)
           THEN /\ last' = Returned(start, JsonResponse("An internal error occurred", 500))
                /\ UNCHANGED <<payments, req>>
           ELSE /\ payments' = CreateRow(payments, row)
                /\ req' = Enter([start EXCEPT !.pc = "i_call", !.ref = tx_ref,
                                              !.pay = Len(payments) + 1, !.payment = row])
                /\ last' = NoneReturned
    /\ UNCHANGED <<properties, bookings, sent, verifyCalls, jobs, bookingSaves>>

\* Line 484, the request leaves: requests.post(CHAPA_INITIATE_URL, json=payload)
\* hands the gateway the reference (payload["tx_ref"] and the callback URL).
initiate_call_gateway(r) ==
    /\ r \in Active
    /\ r.pc = "i_call"
    /\ sent' = sent \cup {r.ref}
    /\ req' = Step(r, [r EXCEPT !.pc = "i_wait"])
    /\ last' = NoneReturned
    /\ UNCHANGED <<properties, bookings, payments, nreq, verifyCalls, jobs, bookingSaves>>

\* What the gateway's initiate endpoint can answer: no answer or an HTTP error
\* (RequestException), a body that is no JSON, or a JSON object with a status,
\* with or without a message and with or without data.checkout_url.
InitiateReplies ==
    [kind : {"json"}, status : {"success", "failed"}, message : BOOLEAN, checkout : {TRUE}]
        \cup {[kind |-> "json", status |-> "success", message |-> FALSE, checkout |-> FALSE]}
        \cup {[kind |-> k, status |-> "failed", message |-> FALSE, checkout |-> FALSE]
                 : k \in {"transport", "badjson"}}

\* Variant of FailIfPending: the payment is marked CANCELED
FailIfPending_Cancels(obj, text) ==
    IF obj.status = PENDING
    THEN [obj EXCEPT !.status = CANCELED, !.chapa_status_text = text]
    ELSE obj

\* `if 'payment' in locals() and payment.status == PENDING:` then FAILED, text, save():
\* the test reads the in-memory object, not the row.
FailIfPending(obj, text) ==
    IF obj.status = PENDING
    THEN [obj EXCEPT !.status = FAILED, !.chapa_status_text = text]
    ELSE obj

\* Variants of IsTerminal: the guard of line 563 tests one status only
IsTerminal_OnlyFailed(status) == status = FAILED
IsTerminal_OnlyCompleted(status) == status = COMPLETED

\* Line 563: payment.status in [COMPLETED, FAILED]
IsTerminal(status) == status \in {COMPLETED, FAILED}

\* The save() of `obj` over row i makes the row terminal
Moves(rows, i, obj) == ~IsTerminal(rows[i].status) /\ IsTerminal(obj.status)

\* Lines 485-521: the gateway's answer to the initiate call.
initiate_gateway_response(r, reply) ==
    /\ r \in Active
    /\ r.pc = "i_wait"
    /\ LET obj == r.payment
           out ==
             IF reply.kind = "transport"
             THEN [save |-> obj.status = PENDING, obj |-> FailIfPending(obj, "API Request Error"),
                   resp |-> JsonResponse("Could not connect to payment gateway or API error.", 500)]
             ELSE IF reply.kind = "badjson"
             THEN [save |-> FALSE, obj |-> obj, resp |-> JsonResponse("Invalid JSON body.", 400)]
             ELSE IF reply.status = "success" /\ ~reply.checkout
             THEN [save |-> obj.status = PENDING, obj |-> FailIfPending(obj, "Internal Error"),
                   resp |-> JsonResponse("An internal error occurred", 500)]
             ELSE IF reply.status = "success"
             THEN [save |-> TRUE,
                   obj |-> [obj EXCEPT !.chapa_status_text =
                               IF reply.message THEN "gateway message"
                               ELSE "Payment initiation successful, awaiting completion."],
                   resp |-> InitiateSuccessResponse(r.ref)]
             ELSE [save |-> TRUE,
                   obj |-> [obj EXCEPT !.status = FAILED,
                                       !.chapa_status_text =
                                           IF reply.message THEN "gateway message"
                                           ELSE "Failed to initiate payment with Chapa."],
                   resp |-> JsonResponse(IF reply.message THEN "gateway message"
                                         ELSE "Failed to initiate payment with Chapa.", 400)]
           r2 == [r EXCEPT !.wrote = out.save,
                           !.mover = out.save /\ Moves(payments, r.pay, out.obj)]
       IN  /\ payments' = IF out.save THEN SaveRow(payments, r.pay, out.obj) ELSE payments
           /\ req' = Leave(r)
           /\ last' = Returned(r2, out.resp)
    /\ UNCHANGED <<properties, bookings, nreq, sent, verifyCalls, jobs, bookingSaves>>

\* ----------------------------------------------------- verify_chapa_payment
\* Lines 559-574: get_object_or_404, the guard on a processed payment, and the
\* GET to the gateway's verify endpoint.  get_object_or_404 raises Http404, which
\* is no Payment.DoesNotExist: `except Exception` answers it.
verify_chapa_payment(tx_ref) ==
    /\ CanStart
    /\ nreq' = nreq + 1
    /\ LET i == PaymentByRef(payments, tx_ref)
           start == [NewRequest("verify") EXCEPT !.ref = tx_ref, !.pay = i]
       IN  IF i = 0
           THEN /\ last' = Returned(start, HttpResponseRedirect("/payment-fail/", tx_ref,
                                                                "error=internal_error"))
                /\ UNCHANGED <<req, verifyCalls>>
           ELSE IF IsTerminal(payments[i].status)
           THEN /\ last' = Returned(start, HttpResponseRedirect("/payment-status/", tx_ref,
                                                                Lower(payments[i].status)))
                /\ UNCHANGED <<req, verifyCalls>>
           ELSE /\ req' = Enter([start EXCEPT !.pc = "v_wait", !.payment = payments[i]])
                /\ verifyCalls' = verifyCalls + 1
                /\ last' = NoneReturned
    /\ UNCHANGED <<properties, bookings, payments, sent, jobs, bookingSaves>>

\* What the gateway's verify endpoint can answer: no answer or an HTTP error
\* (RequestException), or a JSON object {status, message?, data?: {status, message?}}.
VerifyReplies ==
    [kind : {"json"}, status : {"success", "failed"}, message : BOOLEAN,
     data : {TRUE}, data_status : {"success", "failed"}, data_message : BOOLEAN]
        \cup [kind : {"json"}, status : {"success", "failed"}, message : BOOLEAN,
              data : {FALSE}, data_status : {"failed"}, data_message : {FALSE}]
        \cup {[kind |-> "transport", status |-> "failed", message |-> FALSE,
               data |-> FALSE, data_status |-> "failed", data_message |-> FALSE]}

\* Variants of NestedSuccess: the test of line 582 reads one of the two fields only
NestedSuccess_OuterOnly(reply) == reply.status = "success"
NestedSuccess_InnerOnly(reply) == reply.data_status = "success"

\* Line 582: response_data.get('status') == 'success' and
\*           response_data['data'].get('status') == 'success'
NestedSuccess(reply) == reply.status = "success" /\ reply.data_status = "success"

\* response_data['data'] raises KeyError when the object has no "data": at line 582
\* after the outer status compared equal, at line 605 otherwise.
DataRaises(reply) == ~reply.data

\* Line 605: response_data['data'].get('message', response_data.get('message', '...'))
FailureText(reply) ==
    IF reply.data_message THEN "gateway data message"
    ELSE IF reply.message THEN "gateway message"
    ELSE "Payment verification failed."

\* Lines 575-585, 601-629: the gateway's answer to the verify call, the save() of
\* the Payment and, unless the payment is verified, the response.  A KeyError at
\* line 605 is raised after line 603 has set the in-memory status FAILED, so that
\* the handler of line 622 finds the object not PENDING and saves nothing.
verify_gateway_response(r, reply) ==
    /\ r \in Active
    /\ r.pc = "v_wait"
    /\ LET obj == r.payment
           failed == [obj EXCEPT !.status = FAILED]
           out ==
             IF reply.kind = "transport"
             THEN [next |-> "done", save |-> obj.status = PENDING,
                   obj |-> FailIfPending(obj, "API Verification Error"),
                   resp |-> HttpResponseRedirect("/payment-fail/", r.ref, "error=api_error")]
             ELSE IF DataRaises(reply) /\ reply.status = "success"
             THEN [next |-> "done", save |-> obj.status = PENDING,
                   obj |-> FailIfPending(obj, "Internal Error"),
                   resp |-> HttpResponseRedirect("/payment-fail/", r.ref, "error=internal_error")]
             ELSE IF DataRaises(reply)
             THEN [next |-> "done", save |-> failed.status = PENDING,
                   obj |-> FailIfPending(failed, "Internal Error"),
                   resp |-> HttpResponseRedirect("/payment-fail/", r.ref, "error=internal_error")]
             ELSE IF NestedSuccess(reply)
             THEN [next |-> "v_booking", save |-> TRUE,
                   obj |-> [obj EXCEPT !.status = COMPLETED, !.chapa_status_text = "success"],
                   resp |-> NoResponse]
             ELSE [next |-> "done", save |-> TRUE,
                   obj |-> [failed EXCEPT !.chapa_status_text = FailureText(reply)],
                   resp |-> HttpResponseRedirect("/payment-fail/", r.ref, FailureText(reply))]
           r2 == [r EXCEPT !.wrote = out.save,
                           !.mover = out.save /\ Moves(payments, r.pay, out.obj),
                           !.payment = out.obj]
       IN  /\ payments' = IF out.save THEN SaveRow(payments, r.pay, out.obj) ELSE payments
           /\ IF out.next = "done"
              THEN /\ req' = Leave(r)
                   /\ last' = Returned(r2, out.resp)
              ELSE /\ req' = Step(r, [r2 EXCEPT !.pc = out.next])
                   /\ last' = NoneReturned
    /\ UNCHANGED <<properties, bookings, nreq, sent, verifyCalls, jobs, bookingSaves>>

\* Variant of NeedsConfirming: the Booking is saved whatever its status
NeedsConfirming_Always(status) == TRUE

\* Line 588: payment.booking.status != Booking.BookingStatusChoices.CONFIRMED
NeedsConfirming(status) == status # BOOKING_CONFIRMED

\* Line 588: payment.booking loads the Booking row; its status is compared.
verify_read_booking(r) ==
    /\ r \in Active
    /\ r.pc = "v_booking"
    /\ LET b == bookings[r.payment.booking]
       IN  req' = Step(r, [r EXCEPT !.booking = b,
                                    !.pc = IF NeedsConfirming(b.status)
                                           THEN "v_save_booking" ELSE "v_enqueue"])
    /\ last' = NoneReturned
    /\ UNCHANGED <<properties, bookings, payments, nreq, sent, verifyCalls, jobs, bookingSaves>>

\* Lines 589-590: payment.booking.status = CONFIRMED; payment.booking.save()
verify_save_booking(r) ==
    /\ r \in Active
    /\ r.pc = "v_save_booking"
    /\ LET obj == [r.booking EXCEPT !.status = BOOKING_CONFIRMED]
       IN  /\ bookings' = SaveRow(bookings, r.payment.booking, obj)
           /\ req' = Step(r, [r EXCEPT !.booking = obj, !.pc = "v_enqueue"])
    /\ bookingSaves' = bookingSaves (+) SetToBag({[pay |-> r.pay, from |-> r.booking.status]})
    /\ last' = NoneReturned
    /\ UNCHANGED <<properties, payments, nreq, sent, verifyCalls, jobs>>

\* Lines 595-600 and 622-629: send_payment_confirmation_email.delay(...).  When the
\* broker takes the job the view redirects to the success page; when .delay raises,
\* `except Exception` finds the in-memory payment COMPLETED, writes nothing and
\* redirects to the failure page.
verify_enqueue(r, accepted) ==
    /\ r \in Active
    /\ r.pc = "v_enqueue"
    /\ LET resp == IF accepted
                   THEN HttpResponseRedirect("/payment-success/", NoRef, "")
                   ELSE HttpResponseRedirect("/payment-fail/", r.ref, "error=internal_error")
           obj == FailIfPending(r.payment, "Internal Error")
       IN  /\ jobs' = IF accepted THEN Enqueue(jobs, PaymentConfirmedJob(r.pay)) ELSE jobs
           /\ payments' = IF accepted \/ obj = r.payment THEN payments
                          ELSE SaveRow(payments, r.pay, obj)
           /\ req' = Leave(r)
           /\ last' = Returned(r, resp)
    /\ UNCHANGED <<properties, bookings, nreq, sent, verifyCalls, bookingSaves>>

\* ------------------------------------------------------------- the routes
\* A URL path is the sequence of its segments; a segment that is a transaction
\* reference carries it.  A route is a sequence of literals and converters.
Seg(s) == [s |-> s, ref |-> NoRef]
RefSeg(tx_ref) == [s |-> "<ref>", ref |-> tx_ref]
Lit(s) == [lit |-> s, var |-> ""]
Var(name) == [lit |-> "", var |-> name]

\* views.py line 475: f'/api/payments/chapa/verify/{tx_ref}/'
CallbackPath(tx_ref) ==
    <<Seg("api"), Seg("payments"), Seg("chapa"), Seg("verify"), RefSeg(tx_ref)>>

\* request.build_absolute_uri(path): scheme and host of the request, then the path
build_absolute_uri(path) == [host |-> "application", path |-> path]

\* The path a route matches: as many segments, each literal equal
Matches(route, path) ==
    /\ Len(route) = Len(path)
    /\ \A k \in 1..Len(route) : route[k].var # "" \/ route[k].lit = path[k].s

\* The reference that a route's converter `name` captures from a path it matches
Kwarg(route, path, name) ==
    IF \E k \in 1..Len(route) : route[k].var = name
    THEN path[CHOOSE k \in 1..Len(route) : route[k].var = name].ref
    ELSE NoRef

Resolver404 == [view |-> "Resolver404", tx_ref |-> NoRef]

\* URLResolver.resolve over a list of patterns: the first that matches
ResolveIn(patterns, path) ==
    LET hits == {k \in 1..Len(patterns) : Matches(patterns[k].route, path)}
    IN  IF hits = {} THEN Resolver404
        ELSE LET k == CHOOSE k \in hits : \A j \in hits : k <= j
             IN  [view |-> patterns[k].view,
                  tx_ref |-> Kwarg(patterns[k].route, path, "tx_ref")]

\* listings/urls.py, router.urls: the list and the detail route of each view set
\* registered (the format-suffix routes and the API root match no path used here)
RouterPrefixes == <<"users", "properties", "bookings", "payments", "reviews", "messages">>
router_urls ==
    [k \in 1..(2 * Len(RouterPrefixes)) |->
        LET prefix == RouterPrefixes[(k + 1) \div 2]
        IN  IF k % 2 = 1
            THEN [route |-> <<Lit(prefix)>>, view |-> "list"]
            ELSE [route |-> <<Lit(prefix), Var("pk")>>, view |-> "detail"]]

\* listings/urls.py, urlpatterns: router.urls and the five path(...) entries
listings_urlpatterns ==
    router_urls \o
    << [route |-> <<Lit("api"), Lit("payments"), Lit("chapa"), Lit("initiate")>>,
        view |-> "initiate_chapa_payment"],
       [route |-> <<Lit("api"), Lit("payments"), Lit("chapa"), Lit("verify"), Var("tx_ref")>>,
        view |-> "verify_chapa_payment"],
       [route |-> <<Lit("payment-success")>>, view |-> "payment_success"],
       [route |-> <<Lit("payment-fail")>>, view |-> "payment_fail"],
       [route |-> <<Lit("payment-status")>>, view |-> "payment_status"] >>

\* alx_travel_app/urls.py, urlpatterns after the two includes
project_urlpatterns ==
    << [route |-> <<Lit("api"), Lit("token")>>, view |-> "token_obtain_pair"],
       [route |-> <<Lit("api"), Lit("token"), Lit("refresh")>>, view |-> "token_refresh"],
       [route |-> <<Lit("api"), Lit("schema")>>, view |-> "schema"],
       [route |-> <<Lit("api"), Lit("docs")>>, view |-> "swagger-ui"],
       [route |-> <<Lit("api"), Lit("redoc")>>, view |-> "redoc"] >>

\* alx_travel_app/urls.py: path('admin/', admin.site.urls), then
\* path('api/', include('listings.urls')), whose patterns see the path after
\* "api/", then the other patterns.
Resolve(url) ==
    LET path == url.path
        included == IF Len(path) > 0 /\ path[1].s = "api"
                    THEN ResolveIn(listings_urlpatterns, Tail(path))
                    ELSE Resolver404
    IN  IF Len(path) > 0 /\ path[1].s = "admin" THEN [view |-> "admin", tx_ref |-> NoRef]
        ELSE IF included # Resolver404 THEN included
        ELSE ResolveIn(project_urlpatterns, path)

\* ------------------------------------------------------ the specifications
\* The requests a client can send to the initiate endpoint.  What the view never
\* reads is not varied: the caller of a request that is no POST, the body of a
\* request it rejects before json.loads, the uuid4 of a request that creates no row.
Methods == {"POST", "GET"}
CallersOf(method) == IF method = "POST" THEN Users \cup {Anonymous} ELSE {Anonymous}
\* The amounts that differ to the view for a booking id: with no booking id the
\* amount is not read (`not booking_id or ...`), with the id of no booking of the
\* caller only its truth value is read (line 433), else also its number (line 440).
AmountsOf(user, booking_id) ==
    IF booking_id = MissingId THEN {[kind |-> "missing", v |-> 0]}
    ELSE IF booking_id # MalformedId /\ BookingFound(bookings, booking_id, user) THEN Amounts
    ELSE {[kind |-> "missing", v |-> 0], [kind |-> "number", v |-> 0],
          [kind |-> "number", v |-> 1]}
BodiesOf(method, user) ==
    IF method = "POST" /\ user # Anonymous
    THEN {body \in Bodies : body.kind = "invalid"
                               \/ body.amount \in AmountsOf(user, body.booking_id)}
    ELSE {InvalidBody}
NoncesOf(method, user, body) ==
    IF InitiateReject(method, user, body) = NoResponse THEN 1..MaxNonce ELSE {1}

\* The references a verify request can carry.  A reference holds a uuid4: who calls
\* verify has it from the gateway (the callback and return URLs of the payload) or
\* from the response of the initiate call, or sends a reference that no row has.
CallableRefs == {tx_ref \in AllRefs : tx_ref \in sent \/ PaymentByRef(payments, tx_ref) = 0}

Initiate ==
    \E method \in Methods : \E user \in CallersOf(method) : \E body \in BodiesOf(method, user) :
        \E nonce \in NoncesOf(method, user, body) :
            initiate_chapa_payment(method, user, body, nonce)

Next ==
    \/ \E user \in Users, prop \in Properties, nights \in 1..MaxNights :
          perform_create(user, prop, nights)
    \/ Initiate
    \/ \E r \in Active : initiate_call_gateway(r)
    \/ \E r \in Active, reply \in InitiateReplies : initiate_gateway_response(r, reply)
    \/ \E tx_ref \in CallableRefs : verify_chapa_payment(tx_ref)
    \/ \E r \in Active, reply \in VerifyReplies : verify_gateway_response(r, reply)
    \/ \E r \in Active : verify_read_booking(r)
    \/ \E r \in Active : verify_save_booking(r)
    \/ \E r \in Active, accepted \in BOOLEAN : verify_enqueue(r, accepted)
    \/ \E booking_id \in 1..Len(bookings), nights \in 1..MaxNights :
          update_booking(booking_id, nights)
    \/ \E prop \in Properties, rate \in 1..MaxRate : change_price_per_night(prop, rate)

\* Requests arrive at any time and overlap.
Spec == Init /\ [][Next]_vars

\* One request at a time: a request starts after the one before it has returned
\* (a step that leaves `req` as it is serves a whole request).
OneAtATime == InFlight <= 1
Alone == InFlight = 0 \/ req' # req
SeqNext == Next /\ OneAtATime' /\ Alone
SeqSpec == Init /\ [][SeqNext]_vars

\* One request at a time over a database that the seed command has filled.
BookingStatusChoices == {BOOKING_PENDING, BOOKING_CONFIRMED, BOOKING_CANCELED}
Seed ==
    \E user \in Users, prop \in Properties, nights \in 1..MaxNights,
       status \in BookingStatusChoices : seed_bookings(user, prop, nights, status)
SeedNext == SeqNext \/ Seed
SeedSpec == Init /\ [][SeedNext]_vars

\* ------------------------------------------------------------- the claims
Rows == 1..Len(payments)
Terminal == {"COMPLETED", "FAILED"}
ConfirmedJobs(i) == CopiesIn(PaymentConfirmedJob(i), jobs)
VerifyGuardReturn(i) ==
    /\ nreq' = nreq + 1
    /\ req' = req
    /\ last'.op = "verify"
    /\ last'.pay = i
    /\ i \in Rows
    /\ payments[i].status \in Terminal

\* C1: once the stored status of a Payment is COMPLETED or FAILED, no step of any
\* initiate or verify request, overlapping ones included, changes it.
C1_TerminalStatusNeverChanges ==
    [][\A i \in Rows :
          payments[i].status \in Terminal => payments'[i].status = payments[i].status]_vars

\* C2: of the verify requests being served for one transaction reference, at most
\* one has written the Payment row; an overlapping one writes nothing.
C2_OnlyOneVerifyWrites ==
    \A r1, r2 \in Active :
        (/\ r1.op = "verify" /\ r2.op = "verify"
         /\ r1.ref = r2.ref
         /\ r1.wrote /\ r2.wrote)
            => (r1 = r2 /\ CopiesIn(r1, req) = 1)

\* C3: with one request at a time, once a verify call has made a Payment COMPLETED
\* the Payment stays COMPLETED, every later verify call for its reference is
\* answered with the status page saying "completed", and the PaymentConfirmed job
\* is in the queue once and never twice: it is enqueued by the first call (whose
\* success response tells that the broker took the job) and by no later call.
C3_Stays ==
    \A i \in Rows :
        payments[i].status = "COMPLETED" =>
            /\ payments'[i].status = "COMPLETED"
            /\ ConfirmedJobs(i)' # ConfirmedJobs(i) =>
                  /\ ConfirmedJobs(i) = 0
                  /\ \E r \in Active : r.op = "verify" /\ r.pay = i /\ r.mover
            /\ VerifyGuardReturn(i) =>
                  last'.resp = HttpResponseRedirect("/payment-status/",
                                                    payments[i].chapa_transaction_id, "completed")
C3_Once ==
    /\ \A i \in Rows : ConfirmedJobs(i) <= 1
    /\ (last.op = "verify" /\ last.resp.path = "/payment-success/") =>
          (ConfirmedJobs(last.pay) = 1 /\ payments[last.pay].status = "COMPLETED")
C3_VerifyIdempotent == []C3_Once /\ [][C3_Stays]_vars

\* C3 witness: a second verify call has been answered for a COMPLETED payment whose
\* job is in the queue.
C3_Witness ==
    /\ last.op = "verify"
    /\ last.resp.path = "/payment-status/"
    /\ last.resp.arg = "completed"
    /\ ConfirmedJobs(last.pay) = 1

\* C4: a verify call that finds the Payment COMPLETED or FAILED calls the gateway
\* not at all, changes no Payment and no Booking, enqueues nothing, and answers at
\* once with the stored status.
C4_Step ==
    \A tx_ref \in AllRefs :
        LET i == PaymentByRef(payments, tx_ref)
        IN  (/\ i # 0
             /\ payments[i].status \in Terminal
             /\ verify_chapa_payment(tx_ref))
                => /\ verifyCalls' = verifyCalls
                   /\ payments' = payments
                   /\ bookings' = bookings
                   /\ jobs' = jobs
                   /\ req' = req
                   /\ last'.resp.path = "/payment-status/"
                   /\ last'.resp.ref = tx_ref
                   /\ payments[i].status = "COMPLETED" => last'.resp.arg = "completed"
                   /\ payments[i].status = "FAILED" => last'.resp.arg = "failed"
C4_TerminalVerifyIsNoOp == [][C4_Step]_vars

\* C4 witness: a verify call on a FAILED payment has been answered.
C4_Witness ==
    /\ last.op = "verify"
    /\ last.pay \in Rows
    /\ last.resp.path = "/payment-status/"
    /\ last.resp.arg = "failed"
    /\ ~last.wrote

C5_Step ==
    \A i \in Rows :
        VerifyGuardReturn(i) =>
            /\ last'.resp.status = 302
            /\ last'.resp.path = "/payment-status/"
            /\ last'.resp.ref = payments[i].chapa_transaction_id
            /\ last'.resp.arg = (IF payments[i].status = "COMPLETED"
                                 THEN "completed" ELSE "failed")
            /\ (last.pay = i /\ last.mover) =>
                  /\ last.resp.path \in {"/payment-success/", "/payment-fail/", "json"}
                  /\ last'.resp # last.resp
            /\ (last.op = "verify" /\ last.pay = i /\ last.resp.path = "/payment-status/") =>
                  last'.resp = last.resp
Numeric == {a \in Amounts : a.kind \in {"number", "string"}}
Body(b, a) == [kind |-> "object", booking_id |-> b, amount |-> a]

\* C6: an initiate call of the booking's guest with an amount that is not the
\* booking's total price is answered 400, creates no Payment row and sends the
\* gateway nothing.
C6_Step ==
    (/\ nreq' = nreq + 1
     /\ UNCHANGED <<properties, bookings, sent, verifyCalls, jobs, bookingSaves>>
     /\ last'.op # "verify") =>
        \A b \in 1..Len(bookings), a \in Numeric :
            \A nonce \in NoncesOf("POST", bookings[b].user, Body(b, a)) :
                (/\ a.v # bookings[b].total_price
                 /\ initiate_chapa_payment("POST", bookings[b].user, Body(b, a), nonce))
                    => /\ last'.op = "initiate"
                       /\ last'.resp.status = 400
                       /\ ~last'.resp.checkout
                       /\ payments' = payments
                       /\ sent' = sent
                       /\ req' = req
C6_MismatchRejected == [][C6_Step]_vars

\* C6 witness: an initiate call has been answered with the amount-mismatch error.
C6_Witness ==
    /\ last.op = "initiate"
    /\ last.resp.status = 400
    /\ last.resp.arg = "Amount does not match booking total price."

\* C7: an initiate call that names a booking id no row has, or the booking of
\* another guest, is answered 404, creates no Payment row and sends the gateway
\* nothing (the request being a POST of an authenticated user whose JSON body
\* carries a well-formed booking id and an amount).
C7_Step ==
    (/\ nreq' = nreq + 1
     /\ UNCHANGED <<properties, bookings, sent, verifyCalls, jobs, bookingSaves>>
     /\ last'.op # "verify") =>
        \A user \in Users, b \in 1..(MaxBookings + 1) :
            \A a \in AmountsOf(user, b) : \A nonce \in NoncesOf("POST", user, Body(b, a)) :
                (/\ ~Falsy(a)
                 /\ b > Len(bookings) \/ bookings[b].user # user
                 /\ initiate_chapa_payment("POST", user, Body(b, a), nonce))
                    => /\ last'.op = "initiate"
                       /\ last'.resp.status = 404
                       /\ payments' = payments
                       /\ sent' = sent
                       /\ req' = req
C8_Unique ==
    \A i, j \in Rows :
        payments[i].chapa_transaction_id = payments[j].chapa_transaction_id => i = j
C8_Kept ==
    /\ Len(payments') >= Len(payments)
    /\ \A i \in Rows : payments'[i].chapa_transaction_id = payments[i].chapa_transaction_id
C9_Traceable == \A tx_ref \in sent : \E i \in Rows : payments[i].chapa_transaction_id = tx_ref
C9_Before ==
    \A tx_ref \in sent' \ sent :
        \E i \in Rows : payments[i].chapa_transaction_id = tx_ref
C9_RowBeforeGatewayCall == []C9_Traceable /\ [][C9_Before]_vars

\* C9 witness: an initiate call is waiting for the gateway, which has its reference.
C9_Witness ==
    \E r \in Active : r.op = "initiate" /\ r.pc = "i_wait" /\ r.ref \in sent

\* C10: a verify call that found its Payment PENDING and is told by the gateway
\* that the payment succeeded (outer and inner status "success") saves the Payment
\* as COMPLETED, then saves the Booking it read as PENDING as CONFIRMED, then
\* enqueues one PaymentConfirmed job of that Payment (the broker taking the job)
\* and answers with the success page; no other step of the call touches the queue.
C10_Step ==
    /\ \A r \in Active, reply \in VerifyReplies :
          (/\ r.pc = "v_wait"
           /\ reply.kind = "json" /\ reply.data
           /\ reply.status = "success" /\ reply.data_status = "success"
           /\ verify_gateway_response(r, reply))
              => /\ r.payment.status = "PENDING"
                 /\ payments'[r.pay].status = "COMPLETED"
                 /\ \E r2 \in BagToSet(req') :
                       r2.op = "verify" /\ r2.pay = r.pay /\ r2.pc = "v_booking"
                 /\ last' = NoneReturned
                 /\ UNCHANGED <<bookings, jobs>>
    /\ \A r \in Active :
          (r.pc = "v_booking" /\ verify_read_booking(r))
              => /\ UNCHANGED <<payments, bookings, jobs>>
                 /\ bookings[payments[r.pay].booking].status = "pending" =>
                       \E r2 \in BagToSet(req') : r2.pay = r.pay /\ r2.pc = "v_save_booking"
    /\ \A r \in Active :
          (r.pc = "v_save_booking" /\ verify_save_booking(r))
              => /\ r.booking.status = "pending"
                 /\ bookings'[payments[r.pay].booking].status = "confirmed"
                 /\ \A b \in 1..Len(bookings) :
                       b # payments[r.pay].booking => bookings'[b] = bookings[b]
                 /\ UNCHANGED <<payments, jobs>>
                 /\ \E r2 \in BagToSet(req') : r2.pay = r.pay /\ r2.pc = "v_enqueue"
    /\ \A r \in Active :
          (r.pc = "v_enqueue" /\ verify_enqueue(r, TRUE))
              => /\ r.payment.status = "COMPLETED"
                 /\ ConfirmedJobs(r.pay)' = ConfirmedJobs(r.pay) + 1
                 /\ BagCardinality(jobs') = BagCardinality(jobs) + 1
                 /\ UNCHANGED <<payments, bookings>>
                 /\ last'.resp = HttpResponseRedirect("/payment-success/", NoRef, "")
C10_VerifiedSuccess == [][C10_Step]_vars

\* C10 witness: a verify call has completed a payment, confirmed its booking,
\* enqueued the job and been answered with the success page.
C10_Witness ==
    /\ last.op = "verify"
    /\ last.mover
    /\ last.resp.path = "/payment-success/"
    /\ payments[last.pay].status = "COMPLETED"
    /\ bookings[payments[last.pay].booking].status = "confirmed"
    /\ ConfirmedJobs(last.pay) = 1

\* The gateway's answer to a verify call reports a failure: a JSON object with its
\* data part whose outer and inner status are not both "success".
NestedFailure(reply) ==
    /\ reply.kind = "json"
    /\ reply.data
    /\ ~(reply.status = "success" /\ reply.data_status = "success")
OtherRowsKept(i) == \A j \in Rows : j # i => payments'[j] = payments[j]

\* C11: a verify call that found its Payment PENDING and is told by the gateway
\* that the payment failed (a data part, outer and inner status not both "success")
\* saves the Payment as FAILED with the diagnostic text, changes no Booking and no
\* other Payment, enqueues nothing, and answers with a redirect to /payment-fail/
\* that carries the reference and that text.
C11_Step ==
    \A r \in Active, reply \in VerifyReplies :
        (/\ r.pc = "v_wait"
         /\ NestedFailure(reply)
         /\ verify_gateway_response(r, reply))
            => /\ r.payment.status = "PENDING"
               /\ payments'[r.pay].status = "FAILED"
               /\ payments'[r.pay].chapa_status_text \in
                     {"gateway data message", "gateway message", "Payment verification failed."}
               /\ OtherRowsKept(r.pay)
               /\ UNCHANGED <<bookings, jobs>>
               /\ BagCardinality(req') = BagCardinality(req) - 1
               /\ last'.op = "verify"
               /\ last'.resp.status = 302
               /\ last'.resp.path = "/payment-fail/"
               /\ last'.resp.ref = payments[r.pay].chapa_transaction_id
               /\ last'.resp.arg = payments'[r.pay].chapa_status_text
C11_VerifiedFailure == [][C11_Step]_vars

\* C11 witness: a verify call has been told of a failure with a detail message, has
\* made its Payment FAILED and has been answered with the failure page.
C11_Witness ==
    /\ last.op = "verify"
    /\ last.mover
    /\ last.resp.path = "/payment-fail/"
    /\ last.resp.arg = "gateway data message"
    /\ payments[last.pay].status = "FAILED"
    /\ \A b \in 1..Len(bookings) : bookings[b].status = "pending"

\* C12: the answer of the gateway to a verify call makes the Payment COMPLETED when
\* its outer and its inner status are both "success", and FAILED for every other
\* JSON answer, one without a data part included.
C12_Step ==
    \A r \in Active, reply \in VerifyReplies :
        (/\ r.pc = "v_wait"
         /\ reply.kind = "json"
         /\ verify_gateway_response(r, reply))
            => payments'[r.pay].status =
                  (IF reply.data /\ reply.status = "success" /\ reply.data_status = "success"
                   THEN "COMPLETED" ELSE "FAILED")
C12_SuccessOnlyWhenBoth == [][C12_Step]_vars

\* C13: when the broker does not take the PaymentConfirmed job, the verify call
\* still answers with the success page, and the Payment stays COMPLETED and the
\* Booking CONFIRMED.
C13_Step ==
    \A r \in Active :
        (r.pc = "v_enqueue" /\ verify_enqueue(r, FALSE))
            => /\ last'.resp.path = "/payment-success/"
               /\ payments'[r.pay].status = payments[r.pay].status
               /\ bookings' = bookings
C13_DispatchFailureNotReported == [][C13_Step]_vars

\* C14: a verify call with a reference that no Payment row has is answered 404 and
\* changes nothing.
C14_Step ==
    \A tx_ref \in AllRefs :
        (/\ PaymentByRef(payments, tx_ref) = 0
         /\ verify_chapa_payment(tx_ref))
            => /\ last'.resp.status = 404
               /\ UNCHANGED <<payments, bookings, jobs, sent, verifyCalls, req>>
C14_UnknownReferenceNotFound == [][C14_Step]_vars

\* C15: when the initiate call to the gateway fails in transport, the Payment row
\* becomes FAILED if its stored status is PENDING, and keeps its stored status
\* otherwise.
C15_Step ==
    \A r \in Active, reply \in InitiateReplies :
        (/\ r.pc = "i_wait"
         /\ reply.kind = "transport"
         /\ initiate_gateway_response(r, reply))
            => IF payments[r.pay].status = "PENDING"
               THEN payments'[r.pay].status = "FAILED"
               ELSE payments'[r.pay].status = payments[r.pay].status
C15_InitiateFailsOnlyPending == [][C15_Step]_vars

\* C16: when the verify call to the gateway fails in transport, the Payment row
\* becomes FAILED with an error detail if its stored status is PENDING, and keeps
\* its stored status otherwise; no Booking changes and nothing is enqueued.
C16_Step ==
    \A r \in Active, reply \in VerifyReplies :
        (/\ r.pc = "v_wait"
         /\ reply.kind = "transport"
         /\ verify_gateway_response(r, reply))
            => /\ IF payments[r.pay].status = "PENDING"
                  THEN /\ payments'[r.pay].status = "FAILED"
                       /\ payments'[r.pay].chapa_status_text = "API Verification Error"
                  ELSE payments'[r.pay].status = payments[r.pay].status
               /\ UNCHANGED <<bookings, jobs>>
C16_VerifyFailsOnlyPending == [][C16_Step]_vars

\* C17: when a call returns, the stored status of its Payment is what the caller
\* was told: COMPLETED after the success page of verify, not COMPLETED after its
\* failure page, PENDING after a success response of initiate, FAILED after an
\* error response of initiate that had created the row.
C17_ResponseAgreesWithRow ==
    last.pay \in Rows =>
        /\ (last.op = "verify" /\ last.resp.path = "/payment-success/")
              => payments[last.pay].status = "COMPLETED"
        /\ (last.op = "verify" /\ last.resp.path = "/payment-fail/")
              => payments[last.pay].status # "COMPLETED"
        /\ (last.op = "initiate" /\ last.resp.checkout)
              => payments[last.pay].status = "PENDING"
        /\ (last.op = "initiate" /\ last.resp.status >= 400)
              => payments[last.pay].status = "FAILED"

\* C18: every Booking that is CONFIRMED has a Payment that is COMPLETED.
C18_ConfirmedBookingIsPaid ==
    \A b \in 1..Len(bookings) :
        bookings[b].status = "confirmed" =>
            \E i \in Rows : payments[i].booking = b /\ payments[i].status = "COMPLETED"

\* C19: when the gateway answers the initiate call with success and a checkout URL,
\* the view saves the gateway's message (or the default text) on the Payment, whose
\* stored status is PENDING and whose reference is the one the gateway was sent,
\* and returns 200 with the checkout URL and that same reference; no Booking and no
\* other Payment changes and nothing is enqueued.
C19_Step ==
    \A r \in Active, reply \in InitiateReplies :
        (/\ r.pc = "i_wait"
         /\ reply.kind = "json" /\ reply.status = "success" /\ reply.checkout
         /\ initiate_gateway_response(r, reply))
            => /\ payments'[r.pay].status = "PENDING"
               /\ payments'[r.pay].chapa_transaction_id = payments[r.pay].chapa_transaction_id
               /\ payments'[r.pay].chapa_transaction_id \in sent
               /\ payments'[r.pay].chapa_status_text =
                     (IF reply.message THEN "gateway message"
                      ELSE "Payment initiation successful, awaiting completion.")
               /\ OtherRowsKept(r.pay)
               /\ UNCHANGED <<bookings, jobs>>
               /\ last'.op = "initiate"
               /\ last'.resp.status = 200
               /\ last'.resp.checkout
               /\ last'.resp.ref = payments'[r.pay].chapa_transaction_id
C19_InitiateSuccess == [][C19_Step]_vars

\* C19 witness: an initiate call has returned the checkout URL, its Payment is
\* PENDING and carries the gateway's message.
C19_Witness ==
    /\ last.op = "initiate"
    /\ last.resp.checkout
    /\ last.resp.ref = payments[last.pay].chapa_transaction_id
    /\ payments[last.pay].status = "PENDING"
    /\ payments[last.pay].chapa_status_text = "gateway message"

\* C20: when the gateway answers the initiate call with a status that is not
\* success, the view saves the Payment as FAILED with the gateway's message (or the
\* default text) and returns an error that carries that text and no checkout URL;
\* no Booking and no other Payment changes and nothing is enqueued.
C20_Step ==
    \A r \in Active, reply \in InitiateReplies :
        (/\ r.pc = "i_wait"
         /\ reply.kind = "json" /\ reply.status = "failed"
         /\ initiate_gateway_response(r, reply))
            => /\ payments'[r.pay].status = "FAILED"
               /\ payments'[r.pay].chapa_status_text =
                     (IF reply.message THEN "gateway message"
                      ELSE "Failed to initiate payment with Chapa.")
               /\ OtherRowsKept(r.pay)
               /\ UNCHANGED <<bookings, jobs>>
               /\ last'.op = "initiate"
               /\ last'.resp.status >= 400
               /\ ~last'.resp.checkout
               /\ last'.resp.arg = payments'[r.pay].chapa_status_text
PostCallers == Users \cup {Anonymous}
GatewayAccepted(reply) == reply.kind = "json" /\ reply.status = "success" /\ reply.checkout

\* C21: every error outcome of an initiate call carries its documented code: 401
\* for an unauthenticated caller, 400 for an invalid body, a missing field or an
\* amount mismatch, 404 for a booking that is not found or not owned, and 500 for
\* a gateway rejection, a gateway transport failure or an internal failure (an
\* answer of the gateway that is no JSON is left out of the statement).
C21_Rejected ==
    (nreq' = nreq + 1 /\ last'.op = "initiate") =>
        \A user \in PostCallers : \A body \in BodiesOf("POST", user) :
            \A nonce \in NoncesOf("POST", user, body) :
                initiate_chapa_payment("POST", user, body, nonce) =>
                    IF user = Anonymous THEN last'.resp.status = 401
                    ELSE IF body.kind = "invalid" \/ body.booking_id = MissingId
                            \/ body.amount.kind = "missing"
                            \/ (body.amount.kind = "number" /\ body.amount.v = 0)
                        THEN last'.resp.status = 400
                    ELSE IF body.booking_id = MalformedId \/ body.amount.kind = "text"
                        THEN last'.resp.status \in {400, 404, 500}
                    ELSE IF body.booking_id > Len(bookings)
                            \/ bookings[body.booking_id].user # user
                        THEN last'.resp.status = 404
                    ELSE IF body.amount.v # bookings[body.booking_id].total_price
                        THEN last'.resp.status = 400
                    ELSE last'.resp.status = 500
C21_Gateway ==
    \A r \in Active, reply \in InitiateReplies :
        (/\ initiate_gateway_response(r, reply)
         /\ ~GatewayAccepted(reply)
         /\ reply.kind # "badjson")
            => last'.resp.status = 500
C21_ErrorCodes == [][C21_Rejected /\ C21_Gateway]_vars

\* C22: a verify call whose gateway call fails in transport, or that fails
\* internally (the gateway's JSON answer has no data part), is answered 500.
C22_Step ==
    \A r \in Active, reply \in VerifyReplies :
        (/\ verify_gateway_response(r, reply)
         /\ reply.kind = "transport" \/ DataRaises(reply))
            => last'.resp.status = 500
C22_VerifyFailureIs500 == [][C22_Step]_vars

\* C23: when the gateway's answer is a verified failure, the diagnostic text stored
\* on the Payment is the message of the data part if there is one, else the
\* top-level message if there is one, else "Payment verification failed.", for
\* every shape of the answer, one without a data part included.
C23_Step ==
    \A r \in Active, reply \in VerifyReplies :
        (/\ verify_gateway_response(r, reply)
         /\ reply.kind = "json"
         /\ ~(reply.data /\ NestedSuccess(reply)))
            => payments'[r.pay].chapa_status_text =
                  (IF reply.data /\ reply.data_message THEN "gateway data message"
                   ELSE IF reply.message THEN "gateway message"
                   ELSE "Payment verification failed.")
C23_FailureDetailChain == [][C23_Step]_vars

\* C24: the total price of a Booking is set when the Booking is created, to the
\* number of nights times the nightly rate of the property at that time, and no
\* later step (a booking update, a change of the property's rate, an initiate or
\* a verify call) changes it.
C24_AtCreation ==
    Len(bookings') > Len(bookings) =>
        LET b == bookings'[Len(bookings')]
        IN  /\ Len(bookings') = Len(bookings) + 1
            /\ b.total_price = b.nights * properties[b.property]
C24_Kept ==
    \A booking_id \in 1..Len(bookings) :
        /\ booking_id <= Len(bookings')
        /\ bookings'[booking_id].total_price = bookings[booking_id].total_price
C24_TotalPriceFixed == [][C24_AtCreation /\ C24_Kept]_vars

\* C24 witness: a Booking that a verify call has confirmed, after its dates and the
\* rate of its property were changed, still carries the price of its creation.
C24_Witness ==
    \E booking_id \in 1..Len(bookings) :
        LET b == bookings[booking_id]
        IN  /\ b.status = BOOKING_CONFIRMED
            /\ BagCardinality(bookingSaves) > 0
            /\ properties[b.property] # BaseRate(b.property)
            /\ b.total_price # b.nights * properties[b.property]
            /\ b.total_price # b.nights * BaseRate(b.property)

\* C25: the save of the Booking by a verify call writes the status field only: what
\* an overlapping request has written to another field of the Booking between the
\* call's read of the row and its save is in the row after the save.
C25_Step ==
    \A r \in Active :
        verify_save_booking(r) =>
            bookings' = [bookings EXCEPT ![r.payment.booking].status = BOOKING_CONFIRMED]
C25_ConfirmWritesStatusOnly == [][C25_Step]_vars

\* C26: the callback URL that an initiate call has handed to the gateway, when it
\* is requested, is dispatched by the application's routes to verify_chapa_payment
\* with the reference of that call.
C26_CallbackReachesVerify ==
    \A tx_ref \in sent :
        Resolve(build_absolute_uri(CallbackPath(tx_ref)))
            = [view |-> "verify_chapa_payment", tx_ref |-> tx_ref]

\* C27: of the Payments of one Booking at most one is COMPLETED, also when an
\* initiate call is made for a Booking that is CONFIRMED already or that has a
\* PENDING Payment.
C27_OneCompletedPerBooking ==
    \A i, j \in Rows :
        (/\ payments[i].booking = payments[j].booking
         /\ payments[i].status = COMPLETED
         /\ payments[j].status = COMPLETED)
            => i = j

\* The saves of a Booking row that verify requests have made for Payment i
BookingSavesOf(i) ==
    LET from(status) == CopiesIn([pay |-> i, from |-> status], bookingSaves)
    IN  from(BOOKING_PENDING) + from(BOOKING_CONFIRMED) + from(BOOKING_CANCELED)

\* C28: with one request at a time, a verified success saves the Booking of the
\* Payment only when the Booking is not CONFIRMED, from any other status (CANCELED
\* included), as CONFIRMED and with nothing else changed; it saves no Booking that
\* is CONFIRMED already; and the Booking is saved at most once for each Payment.
C28_Save ==
    \A r \in Active :
        verify_save_booking(r) =>
            LET b == r.payment.booking
            IN  /\ r.mover
                /\ bookings[b].status # BOOKING_CONFIRMED
                /\ bookings' = [bookings EXCEPT ![b].status = BOOKING_CONFIRMED]
C28_NoSave ==
    \A r \in Active :
        (verify_read_booking(r) /\ bookings[r.payment.booking].status = BOOKING_CONFIRMED)
            => \E r2 \in BagToSet(req') : r2.pay = r.pay /\ r2.pc = "v_enqueue"
C28_Written ==
    bookings' # bookings =>
        \/ Len(bookings') > Len(bookings)
        \/ bookingSaves' # bookingSaves
        \/ \A b \in 1..Len(bookings) : bookings'[b].status = bookings[b].status
C28_AtMostOnce == \A i \in Rows : BookingSavesOf(i) <= 1
C28_BookingConfirmedOnce ==
    []C28_AtMostOnce /\ [][C28_Save /\ C28_NoSave /\ C28_Written]_vars

\* C28 witness: of two Payments of a Booking that was CANCELED, the verify call for
\* the first has saved the Booking as CONFIRMED, and the verify call for the second
\* has been answered with the success page without saving the Booking.
C28_Witness ==
    /\ last.op = "verify"
    /\ last.mover
    /\ last.resp.path = "/payment-success/"
    /\ BookingSavesOf(last.pay) = 0
    /\ bookings[payments[last.pay].booking].status = BOOKING_CONFIRMED
    /\ \E i \in Rows :
          /\ payments[i].booking = payments[last.pay].booking
          /\ CopiesIn([pay |-> i, from |-> BOOKING_CANCELED], bookingSaves) = 1

\* C29: an initiate call that is no POST is answered 405, one of an unauthenticated
\* caller 401, one whose body is no JSON 400 and one whose body lacks the booking
\* id or the amount 400, each before any Payment row is created and before any
\* call to the gateway.
C29_Rejected(method, user, body, code) ==
    initiate_chapa_payment(method, user, body, 1)
        => /\ last'.op = "initiate"
           /\ last'.resp.status = code
           /\ ~last'.wrote
           /\ payments' = payments
           /\ sent' = sent
           /\ req' = req
C29_Step ==
    (/\ nreq' = nreq + 1
     /\ UNCHANGED <<properties, bookings, sent, verifyCalls, jobs, bookingSaves>>
     /\ last'.op # "verify") =>
        /\ \A method \in Methods \ {"POST"} : \A user \in CallersOf(method) :
              \A body \in BodiesOf(method, user) : C29_Rejected(method, user, body, 405)
        /\ \A body \in BodiesOf("POST", Anonymous) : C29_Rejected("POST", Anonymous, body, 401)
        /\ \A user \in Users :
              /\ C29_Rejected("POST", user, InvalidBody, 400)
              /\ \A booking_id \in BookingIdInputs :
                    C29_Rejected("POST", user, Body(booking_id, [kind |-> "missing", v |-> 0]), 400)
              /\ \A a \in AmountsOf(user, MissingId) :
                    C29_Rejected("POST", user, Body(MissingId, a), 400)
C29_RejectedBeforeAnyEffect == [][C29_Step]_vars

\* C29 witness: with a Booking and a Payment in the tables, an initiate call has
\* been answered that a required field is missing.
C29_Witness ==
    /\ Len(bookings) > 0
    /\ Len(payments) > 0
    /\ last.op = "initiate"
    /\ last.resp.status = 400
    /\ last.resp.arg = "Booking ID and amount are required."

\* C30: the status of every Payment row that an initiate call has created is
\* PENDING, COMPLETED or FAILED: neither view writes CANCELED or REVERSED.
C30_StatusDomain ==
    \A i \in Rows : payments[i].status \in {PENDING, COMPLETED, FAILED}

\* C30 witness: of two Payments that initiate calls created PENDING, a verify call
\* has made one COMPLETED and a failure has made the other FAILED.
C30_Witness ==
    \E i, j \in Rows :
        /\ payments[i].status = COMPLETED
        /\ payments[j].status = FAILED
        /\ payments[j].chapa_status_text \in {"API Request Error", "Internal Error",
                                              "API Verification Error"}

====
